---- MODULE Spec2Model ----
(***************************************************************************)
(* Restaurant-Data.py: a Streamlit script.  Every user interaction runs    *)
(* the script top to bottom against st.session_state: an optional geocode  *)
(* call, an optional Overpass fetch with its normalisation loop, the       *)
(* cuisine parsing loop, the cuisine filter and the map.                   *)
(*                                                                         *)
(* Text that the script inspects character by character (tag values, the   *)
(* cuisine labels) is a sequence of one-character strings.  Floats are     *)
(* integers in units of 1e-4 degree.  A JSON value is a record tagged by   *)
(* its JSON type in field t.                                               *)
(***************************************************************************)
EXTENDS Integers, Sequences, FiniteSets, TLC

VARIABLES location_name, lat, lon, restaurants,
          started, run, fetched,
          cuisines, selected_cuisine, filtered_restaurants

vars == <<location_name, lat, lon, restaurants, started, run, fetched,
          cuisines, selected_cuisine, filtered_restaurants>>

session == <<location_name, lat, lon, restaurants>>

rendered == <<cuisines, selected_cuisine, filtered_restaurants>>

----------------------------------------------------------------------------
(* Bounds of the model *)

\* elements in one Overpass response
MaxElems == 2

\* tokens (text pieces and record breaks) a cuisine data set is built from
MaxTokens == 4

----------------------------------------------------------------------------
(* Program constants *)

DefaultLocationName == "Seattle, Washington, USA"

DefaultLat == 476062

DefaultLon == -1223321

\* &limit=1 of the Nominatim request
GeoLimit == 1

HttpOk == 200

Unnamed == <<"U","n","n","a","m","e","d">>

UnknownCuisine == <<"U","n","k","n","o","w","n"," ","c","u","i","s","i","n","e">>

unknown_cuisine == <<"u","n","k","n","o","w","n"," ","c","u","i","s","i","n","e">>

AllCuisines == <<"A","l","l"," ","c","u","i","s","i","n","e","s">>

JoinSep == <<",", " ">>

----------------------------------------------------------------------------
(* Python str operations on character sequences *)

UpperCase == <<"A","B","C","D","E","F","G","H","I","J","K","L","M",
               "N","O","P","Q","R","S","T","U","V","W","X","Y","Z">>

LowerCase == <<"a","b","c","d","e","f","g","h","i","j","k","l","m",
               "n","o","p","q","r","s","t","u","v","w","x","y","z">>

\* the characters of the model in code point order
CodePoints == <<"\t", "\n", " ", ",", "0", "1", "2", "5", "8", "9", ";">>
              \o UpperCase \o LowerCase

Whitespace == {" ", "\t", "\n"}

Chars == {CodePoints[i] : i \in 1..Len(CodePoints)}

LowerTable ==
    [c \in Chars |->
       IF \E i \in 1..Len(UpperCase) : UpperCase[i] = c
       THEN LowerCase[CHOOSE i \in 1..Len(UpperCase) : UpperCase[i] = c]
       ELSE c]

LowerChar(c) == LowerTable[c]

\* str.lower()
Lower(s) == [i \in 1..Len(s) |-> LowerChar(s[i])]

\* s.replace(old, new) for one-character old and new
Replace(s, old, new) == [i \in 1..Len(s) |-> IF s[i] = old THEN new ELSE s[i]]

RECURSIVE SplitFrom(_, _, _, _)
SplitFrom(s, sep, i, cur) ==
    IF i > Len(s) THEN <<cur>>
    ELSE IF s[i] = sep THEN <<cur>> \o SplitFrom(s, sep, i + 1, <<>>)
    ELSE SplitFrom(s, sep, i + 1, Append(cur, s[i]))

\* str.split(sep) for a one-character sep: empty parts are kept
Split(s, sep) == SplitFrom(s, sep, 1, <<>>)

RECURSIVE LStrip(_)
LStrip(s) == IF s # <<>> /\ Head(s) \in Whitespace THEN LStrip(Tail(s)) ELSE s

RECURSIVE RStrip(_)
RStrip(s) ==
    IF s # <<>> /\ s[Len(s)] \in Whitespace
    THEN RStrip(SubSeq(s, 1, Len(s) - 1))
    ELSE s

\* str.strip()
Strip(s) == RStrip(LStrip(s))

\* a in b
Contains(a, b) ==
    \E i \in 0..(Len(b) - Len(a)) : SubSeq(b, i + 1, i + Len(a)) = a

OrdTable == [c \in Chars |-> CHOOSE i \in 1..Len(CodePoints) : CodePoints[i] = c]

\* ord(c)
Ord(c) == OrdTable[c]

RECURSIVE StrLeq(_, _)
StrLeq(a, b) ==
    IF a = <<>> THEN TRUE
    ELSE IF b = <<>> THEN FALSE
    ELSE IF Head(a) = Head(b) THEN StrLeq(Tail(a), Tail(b))
    ELSE Ord(Head(a)) < Ord(Head(b))

RECURSIVE Sorted(_)
Sorted(S) ==
    IF S = {} THEN <<>>
    ELSE LET m == CHOOSE x \in S : \A y \in S : StrLeq(x, y)
         IN  <<m>> \o Sorted(S \ {m})

RECURSIVE Join(_, _)
Join(sep, parts) ==
    IF parts = <<>> THEN <<>>
    ELSE IF Len(parts) = 1 THEN parts[1]
    ELSE parts[1] \o sep \o Join(sep, Tail(parts))

----------------------------------------------------------------------------
(* JSON and Python values *)

JStr(s) == [t |-> "string", s |-> s]

JNum(n) == [t |-> "number", n |-> n]

JNull == [t |-> "null"]

JArr(a) == [t |-> "array", a |-> a]

JObj(m) == [t |-> "object", m |-> m]

EmptyDict == <<>>

\* dict.get(k, d)
DictGet(m, k, d) == IF k \in DOMAIN m THEN m[k] ELSE d

\* bool(v), as filter(None, ...) and `if lat and lon` take it
Truthy(v) ==
    CASE v.t = "string" -> v.s # <<>>
      [] v.t = "number" -> v.n # 0
      [] v.t = "null"   -> FALSE
      [] OTHER          -> TRUE

----------------------------------------------------------------------------
(* The geocoder *)

NoCall == [kind |-> "nocall"]

\* lat and lon strings a Nominatim candidate carries
CoordStrings == {"0.0", "51.5074", "-0.1278"}

\* the candidates of the model: a place off both axes, one on the equator,
\* one on the prime meridian, and the point where the two cross
Candidates ==
    {[lat |-> "51.5074", lon |-> "-0.1278"], [lat |-> "0.0", lon |-> "-0.1278"],
     [lat |-> "51.5074", lon |-> "0.0"], [lat |-> "0.0", lon |-> "0.0"]}

\* float(s)
Float(s) ==
    CASE s = "0.0"     -> 0
      [] s = "51.5074" -> 515074
      [] s = "-0.1278" -> -1278

CandidateLists == UNION {[1..k -> Candidates] : k \in 0..GeoLimit}

\* what requests.get does: it raises, or it returns a response
GeoResponses ==
    {[kind |-> "transport"]}
    \cup {[kind |-> "http", status_code |-> 503, decodable |-> FALSE, data |-> <<>>]}
    \cup {[kind |-> "http", status_code |-> HttpOk, decodable |-> FALSE, data |-> <<>>]}
    \cup {[kind |-> "http", status_code |-> HttpOk, decodable |-> TRUE, data |-> d] :
             d \in CandidateLists}

Returned(v) == [raised |-> FALSE, value |-> v]

Raised == [raised |-> TRUE, value |-> <<JNull, JNull>>]

geocode_location(geo_res) ==
    IF geo_res.kind = "transport" THEN Raised
    ELSE IF geo_res.status_code = HttpOk
         THEN IF ~geo_res.decodable THEN Raised
              ELSE IF geo_res.data # <<>>
                   THEN Returned(<<JNum(Float(geo_res.data[1].lat)),
                                   JNum(Float(geo_res.data[1].lon))>>)
                   ELSE Returned(<<JNull, JNull>>)
         ELSE Returned(<<JNull, JNull>>)

----------------------------------------------------------------------------
(* The Overpass fetch and its normalisation loop *)

AddressKeys == <<"addr:housenumber", "addr:street", "addr:city", "addr:postcode">>

\* filter(None, [housenumber, street, city, postcode])
AddressParts(tags) ==
    SelectSeq([i \in 1..Len(AddressKeys) |-> DictGet(tags, AddressKeys[i], JStr(<<>>))],
              Truthy)

\* one pass of the loop body; raised when a .get or the join raises
NormalizeElement(element) ==
    IF element.t # "object" THEN [raised |-> TRUE]
    ELSE LET tagsv == DictGet(element.m, "tags", JObj(EmptyDict))
         IN  IF tagsv.t # "object" THEN [raised |-> TRUE]
             ELSE LET tags  == tagsv.m
                      parts == AddressParts(tags)
                  IN  IF \E i \in 1..Len(parts) : parts[i].t # "string"
                      THEN [raised |-> TRUE]
                      ELSE [raised |-> FALSE,
                            record |->
                              [name    |-> DictGet(tags, "name", JStr(Unnamed)),
                               lat     |-> DictGet(element.m, "lat", JNull),
                               lon     |-> DictGet(element.m, "lon", JNull),
                               address |-> Join(JoinSep,
                                                [i \in 1..Len(parts) |-> parts[i].s]),
                               cuisine |-> DictGet(tags, "cuisine", JStr(UnknownCuisine))]]

RECURSIVE NormalizeLoop(_, _, _)
NormalizeLoop(elements, i, acc) ==
    IF i > Len(elements) THEN [raised |-> FALSE, restaurants |-> acc]
    ELSE LET n == NormalizeElement(elements[i])
         IN  IF n.raised THEN [raised |-> TRUE, restaurants |-> acc]
             ELSE NormalizeLoop(elements, i + 1, Append(acc, n.record))

\* except Exception: st.error(...); return []
Caught == [restaurants |-> <<>>, error |-> TRUE]

\* the fetch with the except branch returning what the loop had built, unreported
fetch_nearby_restaurantsNoReport(poi_res) ==
    IF poi_res.kind = "transport" \/ ~poi_res.decodable
       \/ poi_res.data.t # "object"
    THEN [restaurants |-> <<>>, error |-> FALSE]
    ELSE LET elements == DictGet(poi_res.data.m, "elements", JArr(<<>>))
         IN  IF elements.t # "array" THEN [restaurants |-> <<>>, error |-> FALSE]
             ELSE [restaurants |-> NormalizeLoop(elements.a, 1, <<>>).restaurants,
                   error |-> FALSE]

fetch_nearby_restaurants(poi_res) ==
    IF poi_res.kind = "transport" THEN Caught
    ELSE IF ~poi_res.decodable THEN Caught
    ELSE IF poi_res.data.t # "object" THEN Caught
    ELSE LET elements == DictGet(poi_res.data.m, "elements", JArr(<<>>))
         IN  IF elements.t # "array" THEN Caught
             ELSE LET loop == NormalizeLoop(elements.a, 1, <<>>)
                  IN  IF loop.raised THEN Caught
                      ELSE [restaurants |-> loop.restaurants, error |-> FALSE]

----------------------------------------------------------------------------
(* The cuisine parsing loop and the cuisine filter *)

\* the parts with the replace(';', ',') left out
CuisinePartsCommaOnly(raw_cuisine) ==
    LET split == Split(raw_cuisine, ",")
    IN  [i \in 1..Len(split) |-> Strip(split[i])]

\* parts = [c.strip() for c in raw_cuisine.replace(';', ',').split(',')]
CuisineParts(raw_cuisine) ==
    LET split == Split(Replace(raw_cuisine, ";", ","), ",")
    IN  [i \in 1..Len(split) |-> Strip(split[i])]

\* if c and c.lower() != "unknown cuisine": cuisines.add(c)
KeptParts(raw_cuisine) ==
    LET parts == CuisineParts(raw_cuisine)
    IN  {parts[i] : i \in {j \in 1..Len(parts) :
                             parts[j] # <<>> /\ Lower(parts[j]) # unknown_cuisine}}

ParseCuisines(records) ==
    UNION {KeptParts(records[i].cuisine.s) : i \in 1..Len(records)}

\* cuisine_options = ["All cuisines"] + sorted(cuisines)
CuisineOptions(labels) == <<AllCuisines>> \o Sorted(labels)

\* the match with == in place of in
CuisineMatchesWholeField(selected, r) == Lower(selected) = Lower(r.cuisine.s)

\* the match with the selection's .lower() left out
CuisineMatchesCaseSensitive(selected, r) == Contains(selected, Lower(r.cuisine.s))

\* selected_cuisine.lower() in r["cuisine"].lower()
CuisineMatches(selected, r) == Contains(Lower(selected), Lower(r.cuisine.s))

RECURSIVE Comprehension(_, _, _, _)
Comprehension(records, selected, i, acc) ==
    IF i > Len(records) THEN acc
    ELSE Comprehension(records, selected, i + 1,
                       IF CuisineMatches(selected, records[i])
                       THEN Append(acc, records[i]) ELSE acc)

FilterRestaurants(records, selected) ==
    IF selected # AllCuisines
    THEN Comprehension(records, selected, 1, <<>>)
    ELSE records

\* lines 115-122: the selectbox returns one of the options it is given
SelectAndFilter(records, cuisine_options) ==
    \E i \in 1..Len(cuisine_options) :
        /\ selected_cuisine' = cuisine_options[i]
        /\ filtered_restaurants' = FilterRestaurants(records, cuisine_options[i])

\* lines 102-114
ParseAndSelect(records, labels) ==
    /\ cuisines' = labels
    /\ SelectAndFilter(records, CuisineOptions(labels))

\* lines 102-122 of one script run, over the session's records after the
\* update step
Render(records) == ParseAndSelect(records, ParseCuisines(records))

----------------------------------------------------------------------------
(* Overpass responses *)

Lit_pizza == <<"p","i","z","z","a">>

Lit_Pizza == <<"P","i","z","z","a">>

Lit_PizzeriaRegional ==
    <<"P","i","z","z","e","r","i","a",";","r","e","g","i","o","n","a","l">>

Lit_Luigi == <<"L","u","i","g","i">>

Lit_12 == <<"1","2">>

Lit_Seattle == <<"S","e","a","t","t","l","e">>

Lit_98101 == <<"9","8","1","0","1">>

\* every tag present, the street empty
ElemFull ==
    JObj([lat |-> JNum(476100), lon |-> JNum(-1223300),
          tags |-> JObj(("name" :> JStr(Lit_Luigi)) @@ ("cuisine" :> JStr(Lit_pizza))
                        @@ ("addr:housenumber" :> JStr(Lit_12))
                        @@ ("addr:street" :> JStr(<<>>))
                        @@ ("addr:city" :> JStr(Lit_Seattle))
                        @@ ("addr:postcode" :> JStr(Lit_98101)))])

\* no tags key at all
ElemBare == JObj([lat |-> JNum(476200), lon |-> JNum(-1223400)])

\* the tag mapping is not a mapping
ElemNullTags == JObj([lat |-> JNum(476400), lon |-> JNum(-1223600), tags |-> JNull])

\* one tag is not a string
ElemNumStreet ==
    JObj([lat |-> JNum(476500), lon |-> JNum(-1223700),
          tags |-> JObj(("name" :> JStr(Lit_Luigi)) @@ ("addr:street" :> JNum(5)))])

WellFormedElems == {ElemFull, ElemBare}

MalformedElems == {ElemNullTags, ElemNumStreet}

ElemSeqs(pool, n) == UNION {[1..k -> pool] : k \in 0..n}

PoiJson(d) == [kind |-> "http", decodable |-> TRUE, data |-> d]

PoiElements(es) == PoiJson(JObj([elements |-> JArr(es)]))

PoiTransportErrors == {[kind |-> "transport"]}

PoiUndecodable == {[kind |-> "http", decodable |-> FALSE, data |-> JNull]}

\* decodable JSON that is not {"elements": [element, ...]} with well-formed elements
PoiIllShaped ==
    {PoiJson(JArr(<<>>)), PoiJson(JObj([elements |-> JNull]))}
    \cup {PoiElements(es) : es \in {x \in ElemSeqs(WellFormedElems \cup MalformedElems, MaxElems) :
                                      \E i \in 1..Len(x) : x[i] \in MalformedElems}}

\* an object without the elements key: the script takes it for no elements
PoiNoElements == {PoiJson(JObj(EmptyDict))}

PoiWellFormed == {PoiElements(es) : es \in ElemSeqs(WellFormedElems, MaxElems)}

PoiResponses ==
    PoiTransportErrors \cup PoiUndecodable \cup PoiIllShaped
    \cup PoiNoElements \cup PoiWellFormed

\* fetch_nearby_restaurants over the responses of the model, computed once
OverpassResult == [r \in PoiResponses |-> fetch_nearby_restaurants(r)]

----------------------------------------------------------------------------
(* One script run *)

\* what the user may type into the location form
Queries == {"", "xyzxyzxyz123", "London"}

GeocodeCall(query) == [api |-> "geocode", query |-> query, lat |-> 0, lon |-> 0]

FetchCall(la, lo) == [api |-> "fetch", query |-> "", lat |-> la, lon |-> lo]

NoRun ==
    [kind |-> "none", initial |-> FALSE, submitted |-> FALSE, user_input |-> "",
     geo_res |-> NoCall, geocoded |-> NoCall, poi_res |-> NoCall, calls |-> <<>>,
     warned |-> FALSE, errored |-> FALSE, crashed |-> FALSE]

\* the form of lines 27-29: the first run of a session has nothing submitted
\* and the text input shows the stored location name
FormInput(submitted, user_input) ==
    /\ user_input \in Queries \cup {location_name}
    /\ ~started => (~submitted /\ user_input = location_name)

\* line 80
Submitted(submitted, user_input) == submitted /\ user_input # ""

\* line 82: if lat and lon
LatAndLon(g) == Truthy(g.value[1]) /\ Truthy(g.value[2])

\* line 81 raises: the run ends there, nothing below it executes
RunGeocodeRaises(submitted, user_input, geo_res) ==
    /\ FormInput(submitted, user_input)
    /\ Submitted(submitted, user_input)
    /\ geocode_location(geo_res).raised
    /\ started' = TRUE
    /\ run' = [kind |-> "run", initial |-> ~started, submitted |-> submitted,
               user_input |-> user_input, geo_res |-> geo_res,
               geocoded |-> NoCall, poi_res |-> NoCall,
               calls |-> <<GeocodeCall(user_input)>>,
               warned |-> FALSE, errored |-> FALSE, crashed |-> TRUE]
    /\ UNCHANGED <<session, fetched, rendered>>

\* lines 83-87 with the fetch made from the session's coordinates before they
\* are assigned
UpdateLocationFetchFirst(submitted, user_input, geo_res, poi_res) ==
    LET g == geocode_location(geo_res)
        f == OverpassResult[poi_res]
    IN  /\ lat' = g.value[1].n
        /\ lon' = g.value[2].n
        /\ location_name' = user_input
        /\ restaurants' = f.restaurants
        /\ fetched' = [happened |-> TRUE, lat |-> lat, lon |-> lon,
                       result |-> f.restaurants]
        /\ run' = [kind |-> "run", initial |-> ~started, submitted |-> submitted,
                   user_input |-> user_input, geo_res |-> geo_res,
                   geocoded |-> g, poi_res |-> poi_res,
                   calls |-> <<GeocodeCall(user_input), FetchCall(lat, lon)>>,
                   warned |-> FALSE, errored |-> f.error, crashed |-> FALSE]
        /\ Render(f.restaurants)

\* lines 83-87, then the rest of the script
UpdateLocation(submitted, user_input, geo_res, poi_res) ==
    LET g == geocode_location(geo_res)
        f == OverpassResult[poi_res]
    IN  /\ lat' = g.value[1].n
        /\ lon' = g.value[2].n
        /\ location_name' = user_input
        /\ restaurants' = f.restaurants
        /\ fetched' = [happened |-> TRUE, lat |-> g.value[1].n, lon |-> g.value[2].n,
                       result |-> f.restaurants]
        /\ run' = [kind |-> "run", initial |-> ~started, submitted |-> submitted,
                   user_input |-> user_input, geo_res |-> geo_res,
                   geocoded |-> g, poi_res |-> poi_res,
                   calls |-> <<GeocodeCall(user_input),
                               FetchCall(g.value[1].n, g.value[2].n)>>,
                   warned |-> FALSE, errored |-> f.error, crashed |-> FALSE]
        /\ Render(f.restaurants)

RunLocationFound(submitted, user_input, geo_res) ==
    /\ FormInput(submitted, user_input)
    /\ Submitted(submitted, user_input)
    /\ ~geocode_location(geo_res).raised
    /\ LatAndLon(geocode_location(geo_res))
    /\ started' = TRUE
    /\ \E poi_res \in PoiResponses :
         UpdateLocation(submitted, user_input, geo_res, poi_res)

\* line 89 with the location name assigned before the result is looked at
RunLocationNotFoundRenames(submitted, user_input, geo_res) ==
    LET g == geocode_location(geo_res)
    IN  /\ FormInput(submitted, user_input)
        /\ Submitted(submitted, user_input)
        /\ ~g.raised
        /\ ~LatAndLon(g)
        /\ started' = TRUE
        /\ location_name' = user_input
        /\ run' = [kind |-> "run", initial |-> ~started, submitted |-> submitted,
                   user_input |-> user_input, geo_res |-> geo_res,
                   geocoded |-> g, poi_res |-> NoCall,
                   calls |-> <<GeocodeCall(user_input)>>,
                   warned |-> TRUE, errored |-> FALSE, crashed |-> FALSE]
        /\ UNCHANGED <<lat, lon, restaurants, fetched>>
        /\ Render(restaurants)

\* line 89, then the rest of the script
RunLocationNotFound(submitted, user_input, geo_res) ==
    LET g == geocode_location(geo_res)
    IN  /\ FormInput(submitted, user_input)
        /\ Submitted(submitted, user_input)
        /\ ~g.raised
        /\ ~LatAndLon(g)
        /\ started' = TRUE
        /\ run' = [kind |-> "run", initial |-> ~started, submitted |-> submitted,
                   user_input |-> user_input, geo_res |-> geo_res,
                   geocoded |-> g, poi_res |-> NoCall,
                   calls |-> <<GeocodeCall(user_input)>>,
                   warned |-> TRUE, errored |-> FALSE, crashed |-> FALSE]
        /\ UNCHANGED <<session, fetched>>
        /\ Render(restaurants)

\* lines 93-95, then the rest of the script
FetchForSession(submitted, user_input, poi_res) ==
    LET f == OverpassResult[poi_res]
    IN  /\ restaurants' = f.restaurants
        /\ fetched' = [happened |-> TRUE, lat |-> lat, lon |-> lon,
                       result |-> f.restaurants]
        /\ run' = [kind |-> "run", initial |-> ~started, submitted |-> submitted,
                   user_input |-> user_input, geo_res |-> NoCall,
                   geocoded |-> NoCall, poi_res |-> poi_res,
                   calls |-> <<FetchCall(lat, lon)>>,
                   warned |-> FALSE, errored |-> f.error, crashed |-> FALSE]
        /\ UNCHANGED <<location_name, lat, lon>>
        /\ Render(f.restaurants)

\* lines 90-91 with an empty record set
RunEmptyFetch(submitted, user_input) ==
    /\ FormInput(submitted, user_input)
    /\ ~Submitted(submitted, user_input)
    /\ restaurants = <<>>
    /\ started' = TRUE
    /\ \E poi_res \in PoiResponses : FetchForSession(submitted, user_input, poi_res)

\* lines 90-91 with records present, then the rest of the script
RunNoUpdate(submitted, user_input) ==
    /\ FormInput(submitted, user_input)
    /\ ~Submitted(submitted, user_input)
    /\ restaurants # <<>>
    /\ started' = TRUE
    /\ run' = [kind |-> "run", initial |-> ~started, submitted |-> submitted,
               user_input |-> user_input, geo_res |-> NoCall,
               geocoded |-> NoCall, poi_res |-> NoCall, calls |-> <<>>,
               warned |-> FALSE, errored |-> FALSE, crashed |-> FALSE]
    /\ UNCHANGED <<session, fetched>>
    /\ Render(restaurants)

\* lines 15-24: the session's defaults
SessionDefaults ==
    /\ location_name = DefaultLocationName
    /\ lat = DefaultLat
    /\ lon = DefaultLon
    /\ restaurants = <<>>

Init ==
    /\ SessionDefaults
    /\ started = FALSE
    /\ run = NoRun
    /\ fetched = [happened |-> FALSE, lat |-> 0, lon |-> 0, result |-> <<>>]
    /\ cuisines = {}
    /\ selected_cuisine = AllCuisines
    /\ filtered_restaurants = <<>>

Next ==
    \/ \E user_input \in Queries, geo_res \in GeoResponses :
         RunGeocodeRaises(TRUE, user_input, geo_res)
    \/ \E user_input \in Queries, geo_res \in GeoResponses :
         RunLocationFound(TRUE, user_input, geo_res)
    \/ \E user_input \in Queries, geo_res \in GeoResponses :
         RunLocationNotFound(TRUE, user_input, geo_res)
    \/ \E submitted \in BOOLEAN, user_input \in Queries \cup {location_name} :
         RunEmptyFetch(submitted, user_input)
    \/ \E submitted \in BOOLEAN, user_input \in Queries \cup {location_name} :
         RunNoUpdate(submitted, user_input)

Spec == Init /\ [][Next]_vars

----------------------------------------------------------------------------
(* The cuisine loop and the filter over richer cuisine tags: a session whose *)
(* last fetch returned tags built from a few text pieces, and reruns of the  *)
(* script over it                                                            *)

Lit_unknownCUISINE ==
    <<"u","n","k","n","o","w","n"," ","C","U","I","S","I","N","E">>

Pieces ==
    {Lit_pizza, Lit_Pizza, Lit_PizzeriaRegional, UnknownCuisine, Lit_unknownCUISINE,
     AllCuisines, <<";">>, <<",">>, <<" ">>}

\* a token is a text piece or the end of one element's cuisine tag
Tokens == {[brk |-> FALSE, s |-> piece] : piece \in Pieces} \cup {[brk |-> TRUE, s |-> <<>>]}

TokenSeqs == UNION {[1..k -> Tokens] : k \in 1..MaxTokens}

RECURSIVE CuisineTags(_, _, _)
CuisineTags(ts, i, cur) ==
    IF i > Len(ts) THEN (IF cur # <<>> THEN <<cur>> ELSE <<>>)
    ELSE IF ts[i].brk THEN <<cur>> \o CuisineTags(ts, i + 1, <<>>)
    ELSE CuisineTags(ts, i + 1, cur \o ts[i].s)

TaggedElements(ts) ==
    LET tagvals == CuisineTags(ts, 1, <<>>)
    IN  [k \in 1..Len(tagvals) |->
           JObj([lat |-> JNum(k), lon |-> JNum(k),
                 tags |-> JObj([cuisine |-> JStr(tagvals[k])])])]

InitRender ==
    /\ location_name = DefaultLocationName
    /\ lat = DefaultLat
    /\ lon = DefaultLon
    /\ \E ts \in TokenSeqs :
         restaurants = fetch_nearby_restaurants(PoiElements(TaggedElements(ts))).restaurants
    /\ started = TRUE
    /\ run = NoRun
    /\ fetched = [happened |-> TRUE, lat |-> DefaultLat, lon |-> DefaultLon,
                  result |-> restaurants]
    /\ cuisines = {}
    /\ selected_cuisine = AllCuisines
    /\ filtered_restaurants = <<>>

NextRender == RunNoUpdate(FALSE, location_name)

SpecRender == InitRender /\ [][NextRender]_vars

----------------------------------------------------------------------------
(* Vocabulary of the properties *)

NotFound == Returned(<<JNull, JNull>>)

\* the last run was a submission of a non-empty query
SubmittedRun == run.kind = "run" /\ run.submitted /\ run.user_input # ""

\* the script ran through its cuisine loop and filter at least once
RenderHappened == run.kind = "run"

FetchIssued == \E i \in 1..Len(run.calls) : run.calls[i].api = "fetch"

\* the geocoding service answered 200 with at least one candidate
GeoAnsweredWithCandidate ==
    /\ SubmittedRun
    /\ run.geo_res.kind = "http"
    /\ run.geo_res.status_code = HttpOk
    /\ run.geo_res.decodable
    /\ run.geo_res.data # <<>>

FirstCandidateLat == Float(run.geo_res.data[1].lat)

FirstCandidateLon == Float(run.geo_res.data[1].lon)

\* x and y are the same character up to case
SameLetter(x, y) ==
    x = y \/ \E i \in 1..Len(UpperCase) : {x, y} = {UpperCase[i], LowerCase[i]}

SameText(a, b) == Len(a) = Len(b) /\ \A k \in 1..Len(a) : SameLetter(a[k], b[k])

\* a occurs in b as a case-insensitive substring
OccursIn(a, b) ==
    \E off \in 0..(Len(b) - Len(a)) : \A k \in 1..Len(a) : SameLetter(a[k], b[off + k])

Separators == {",", ";"}

SeparatorPositions(raw) == {k \in 1..Len(raw) : raw[k] \in Separators}

\* the maximal separator-free stretches raw[i..j] of a raw cuisine field: each
\* begins at the start or right after a separator, ends at the end or right
\* before one, and holds none
Stretches(raw) ==
    {ij \in ({1} \cup {k + 1 : k \in SeparatorPositions(raw)})
            \X ({Len(raw)} \cup {k - 1 : k \in SeparatorPositions(raw)}) :
       /\ ij[1] <= ij[2] + 1
       /\ \A k \in ij[1]..ij[2] : raw[k] \notin Separators}

\* a stretch without its leading and trailing whitespace
Trimmed(x) ==
    LET inked == {k \in 1..Len(x) : x[k] \notin Whitespace}
    IN  IF inked = {} THEN <<>>
        ELSE SubSeq(x, CHOOSE k \in inked : \A m \in inked : k <= m,
                       CHOOSE k \in inked : \A m \in inked : m <= k)

LabelsOf(raw) ==
    {c \in {Trimmed(SubSeq(raw, ij[1], ij[2])) : ij \in Stretches(raw)} :
       c # <<>> /\ ~SameText(c, unknown_cuisine)}

ExpectedLabels == UNION {LabelsOf(restaurants[i].cuisine.s) : i \in 1..Len(restaurants)}

\* the positions of the records the selection matches
MatchingPositions ==
    {i \in 1..Len(restaurants) : OccursIn(selected_cuisine, restaurants[i].cuisine.s)}

\* out holds exactly the records of the session at the positions pos, in order
IsSubsequenceAt(out, pos) ==
    /\ Len(out) = Cardinality(pos)
    /\ \A i \in pos : out[Cardinality({j \in pos : j <= i})] = restaurants[i]

FilterContract ==
    RenderHappened =>
        IF selected_cuisine = AllCuisines
        THEN filtered_restaurants = restaurants
        ELSE IsSubsequenceAt(filtered_restaurants, MatchingPositions)

PizzeriaPositions ==
    {i \in 1..Len(restaurants) : restaurants[i].cuisine.s = Lit_PizzeriaRegional}

----------------------------------------------------------------------------
(* Properties *)

\* C1: a run that submits a non-empty query for which the geocoder returns
\* not-found leaves latitude, longitude, location name and record set as they
\* were, surfaces a warning and issues no POI fetch.
C1_NotFoundKeepsSession ==
    [][(SubmittedRun' /\ run'.geocoded = NotFound)
          => /\ lat' = lat /\ lon' = lon
             /\ location_name' = location_name
             /\ restaurants' = restaurants
             /\ run'.warned
             /\ ~FetchIssued']_vars

C1_Witness ==
    /\ SubmittedRun /\ run.geocoded = NotFound /\ run.warned
    /\ run.user_input = "xyzxyzxyz123"
    /\ location_name = "London" /\ restaurants # <<>>

\* C2: the records of the session are the result of the most recent POI
\* fetch, and that fetch was made for the session's current latitude and
\* longitude.
C2_RecordsFromLatestFetch ==
    restaurants # <<>> =>
        /\ fetched.happened
        /\ restaurants = fetched.result
        /\ fetched.lat = lat /\ fetched.lon = lon

C2_Witness ==
    /\ restaurants # <<>> /\ lat # DefaultLat
    /\ SubmittedRun /\ run.warned

\* C3: a run issues a POI fetch only after a successful geocode call of the
\* same run or when it is the initial load of the session.
C3_FetchOnlyAfterGeocodeOrOnInitialLoad ==
    \A i \in 1..Len(run.calls) :
        run.calls[i].api = "fetch" =>
            \/ run.initial
            \/ /\ \E j \in 1..(i - 1) : run.calls[j].api = "geocode"
               /\ run.geocoded # NoCall /\ run.geocoded # NotFound

\* C4: when the geocoding service answers 200 with candidates, the geocoder
\* returns the first candidate's coordinates (zero included), the session holds
\* them and the submitted query, and the record set is the result of the fetch
\* made for them.
C4_FirstCandidateBecomesSession ==
    GeoAnsweredWithCandidate =>
        /\ run.geocoded = Returned(<<JNum(FirstCandidateLat), JNum(FirstCandidateLon)>>)
        /\ lat = FirstCandidateLat /\ lon = FirstCandidateLon
        /\ location_name = run.user_input
        /\ FetchIssued
        /\ fetched.lat = FirstCandidateLat /\ fetched.lon = FirstCandidateLon
        /\ restaurants = fetched.result

\* C5: an HTTP failure status, an empty candidate list and a transport error
\* of the lookup each make the geocoder return not-found, and the run goes on
\* to the warning without a crash.
C5_GeocoderFailuresAreNotFound ==
    (SubmittedRun /\ (\/ run.geo_res.kind = "transport"
                      \/ /\ run.geo_res.kind = "http"
                         /\ \/ run.geo_res.status_code # HttpOk
                            \/ run.geo_res.decodable /\ run.geo_res.data = <<>>))
        => /\ ~run.crashed
           /\ run.geocoded = NotFound
           /\ run.warned

\* C6: a POI fetch that fails (transport error, undecodable or ill-shaped
\* response) reports an error and yields no records without crashing the run;
\* after a successful geocode the session then holds the new coordinates and
\* name and an empty record set.
C6_FailedFetchIsEmptyResult ==
    (run.kind = "run"
       /\ run.poi_res \in PoiTransportErrors \cup PoiUndecodable \cup PoiIllShaped)
        => /\ run.errored /\ ~run.crashed
           /\ restaurants = <<>> /\ fetched.result = <<>>
           /\ run.geo_res # NoCall =>
                /\ lat = FirstCandidateLat /\ lon = FirstCandidateLon
                /\ location_name = run.user_input

C6_Witness ==
    /\ SubmittedRun /\ run.errored
    /\ run.poi_res = PoiElements(<<ElemFull, ElemNullTags>>)
    /\ lat = 515074 /\ location_name = "London" /\ restaurants = <<>>

\* C7 as claimed: the filter returns the input for the all-cuisines sentinel
\* and otherwise the order-preserving subsequence of the records whose raw
\* cuisine contains the selection case-insensitively, and with that a record
\* with raw cuisine "Pizzeria;regional" is included for the selection "pizza".
C7_FilterWithPizzeriaExample ==
    /\ FilterContract
    /\ (RenderHappened /\ selected_cuisine = Lit_pizza) =>
          \A i \in PizzeriaPositions :
              \E k \in 1..Len(filtered_restaurants) :
                  filtered_restaurants[k] = restaurants[i]

\* C7 amended: the same contract; a record with raw cuisine
\* "Pizzeria;regional" is not included for the selection "pizza", which is no
\* substring of it.
C7_FilterIsMatchingSubsequence ==
    /\ FilterContract
    /\ (RenderHappened /\ selected_cuisine = Lit_pizza) =>
          \A i \in PizzeriaPositions :
              \A k \in 1..Len(filtered_restaurants) :
                  filtered_restaurants[k] # restaurants[i]

C7_Witness ==
    /\ RenderHappened /\ selected_cuisine = Lit_pizza
    /\ PizzeriaPositions # {}
    /\ filtered_restaurants # <<>>
    /\ Len(filtered_restaurants) < Len(restaurants)

\* C8: the cuisine label set is exactly the set of trimmed parts of the raw
\* cuisine fields split on ',' and ';', without the empty string and without
\* the case variants of "unknown cuisine", computed from the current records.
C8_LabelsAreTrimmedParts ==
    RenderHappened =>
        /\ cuisines = ExpectedLabels
        /\ \A c \in cuisines : c # <<>> /\ ~SameText(c, unknown_cuisine)

C8_Witness ==
    /\ RenderHappened
    /\ Cardinality(cuisines) >= 2
    /\ \E i \in 1..Len(restaurants) :
          /\ OccursIn(unknown_cuisine, restaurants[i].cuisine.s)
          /\ restaurants[i].cuisine.s # Lower(restaurants[i].cuisine.s)
          /\ \E k \in 1..Len(restaurants[i].cuisine.s) :
                restaurants[i].cuisine.s[k] \in Separators

\* C9: normalisation never raises and yields one record per raw element, in
\* order, with the documented defaults for absent or malformed tags.
C9_NormalizeIsTotal ==
    (run.kind = "run" /\ run.poi_res # NoCall /\ run.poi_res.kind = "http"
       /\ run.poi_res.decodable /\ run.poi_res.data.t = "object"
       /\ "elements" \in DOMAIN run.poi_res.data.m
       /\ run.poi_res.data.m.elements.t = "array")
        => /\ ~run.errored
           /\ Len(restaurants) = Len(run.poi_res.data.m.elements.a)
           /\ \A i \in 1..Len(restaurants) :
                 LET e == run.poi_res.data.m.elements.a[i].m
                     tags == IF "tags" \in DOMAIN e /\ e.tags.t = "object"
                             THEN e.tags.m ELSE EmptyDict
                 IN  /\ restaurants[i].name =
                          (IF "name" \in DOMAIN tags THEN tags["name"] ELSE JStr(Unnamed))
                     /\ restaurants[i].cuisine =
                          (IF "cuisine" \in DOMAIN tags THEN tags["cuisine"]
                           ELSE JStr(UnknownCuisine))
                     /\ restaurants[i].address =
                          Join(JoinSep,
                               SelectSeq([k \in 1..Len(AddressKeys) |->
                                            IF AddressKeys[k] \in DOMAIN tags
                                               /\ tags[AddressKeys[k]].t = "string"
                                            THEN tags[AddressKeys[k]].s ELSE <<>>],
                                         LAMBDA x : x # <<>>))

\* C10: selecting a label of the derived label set yields a non-empty result
\* that contains every record from whose raw cuisine the label was extracted.
C10_LabelSelectsItsRecords ==
    (RenderHappened /\ selected_cuisine \in cuisines) =>
        /\ filtered_restaurants # <<>>
        /\ \A i \in 1..Len(restaurants) :
              selected_cuisine \in LabelsOf(restaurants[i].cuisine.s) =>
                  \E k \in 1..Len(filtered_restaurants) :
                      filtered_restaurants[k] = restaurants[i]

C10_Witness ==
    /\ RenderHappened /\ selected_cuisine = Lit_Pizza
    /\ Len(restaurants) >= 2
    /\ Len(filtered_restaurants) = Len(restaurants)
    /\ \E i \in 1..Len(restaurants) : restaurants[i].cuisine.s = Lit_pizza

====
